---------------------------- MODULE Spec2Model ----------------------------
(***************************************************************************)
(* LNG-Alpha-Feed: the live funnel pipeline (app/main.py run_live), its    *)
(* Jetstream harvester (app/modules/harvester.py) and the sentiment stage  *)
(* (app/modules/sentiment.py).                                             *)
(*                                                                         *)
(* Spec is the whole pipeline and SpecLive adds the fairness of the        *)
(* reconnect sleep; SpecAnalyze, SpecClassify and SpecFilter are one call   *)
(* of analyze, classify and _should_process on any input; SpecFunnel is    *)
(* the two workers in front of a filled queue, with a log of what each     *)
(* dequeued item went through, and SpecFunnelLive adds the fair scheduling *)
(* of the workers; SpecOrder is one session of the pipeline with the log   *)
(* of what was read, taken and published, in order.                        *)
(*                                                                         *)
(* Texts are sequences of words; a regular expression of the source is the *)
(* set of its alternatives, each a sequence of lower-case words, and       *)
(* re.search is "some alternative occurs as a contiguous run of words of   *)
(* the case-folded text".  Confidences are hundredths (0.75 is 75).        *)
(***************************************************************************)
EXTENDS Integers, Sequences, FiniteSets, TLC

\* ------------------------------------------------------------------ bounds
\* Capacity of the work queue in the model (asyncio.Queue(maxsize=5000) in
\* run_live, scaled down).
MaxSize == 2
\* Steps of the ingestion task over a run: envelopes read plus connections
\* established plus backoff sleeps.
MaxSteps == 4
\* Words of a text handed to analyze.
MaxLen == 2
\* Words of a text handed to classify.
MaxWords == 3

\* ------------------------------------------------------- program constants
BackoffStart == 1
BackoffCap == 60
NumWorkers == 2

\* ------------------------------------------------------------------- texts
Vocabulary ==
    {"gorgon", "Outage", "restart", "webinar", "strike", "hello"}

\* str.lower() / (?i) on one word or identity.
Lower(w) ==
    CASE w = "Outage" -> "outage"
      [] w = "Woodside" -> "woodside"
      [] w = "DID:PLC:BLAS" -> "did:plc:blas"
      [] OTHER -> w

LowerText(t) == [i \in 1..Len(t) |-> Lower(t[i])]

\* pat occurs in t as a contiguous run of words (both already case-folded).
Occurs(pat, t) ==
    \E i \in 1..(Len(t) - Len(pat) + 1) : SubSeq(t, i, i + Len(pat) - 1) = pat

\* re.search of a case-insensitive alternation.
Search(alts, t) == \E pat \in alts : Occurs(pat, LowerText(t))

\* Characters of a word (len).
WordLen(w) ==
    CASE w \in {"lng"} -> 3
      [] w \in {"hello"} -> 5
      [] w \in {"gorgon", "strike", "outage"} -> 6
      [] w \in {"webinar", "restart"} -> 7
      [] OTHER -> 8

RECURSIVE GapChars(_, _, _)
\* The characters between word i and word j of t, the words being one space
\* apart.
GapChars(t, i, j) ==
    IF j = i + 1 THEN 1 ELSE GapChars(t, i, j - 1) + WordLen(t[j - 1]) + 1

\* An alternative "first.{0,max}last": first, at most max characters, last.
Gap(first, max, last) == [first |-> first, max |-> max, last |-> last]

\* re.search of one such alternative in the case-folded text t.
GapOccurs(g, t) ==
    \E i \in 1..Len(t) : \E j \in (i + 1)..Len(t) :
        /\ t[i] = g.first
        /\ t[j] = g.last
        /\ GapChars(t, i, j) <= g.max

SeqsUpTo(S, n) == UNION {[1..k -> S] : k \in 0..n}

Texts == SeqsUpTo(Vocabulary, MaxLen)

\* ------------------------------------------------------------ sentiment.py
BULLISH_RE ==
    {<<"outage">>, <<"strike">>, <<"force", "majeure">>, <<"shutdown">>,
     <<"suspension">>, <<"explosion">>, <<"leak">>, <<"evacuate">>,
     <<"work", "ban">>, <<"delay">>}

BEARISH_RE ==
    {<<"restart">>, <<"resume">>, <<"ramp", "up">>, <<"back", "online">>,
     <<"reopen">>, <<"commissioning">>, <<"surplus">>,
     <<"inventory", "build">>}

Sentiments == {"BULLISH", "BEARISH", "NEUTRAL"}

SentimentResult(s, c, r) == [sentiment |-> s, confidence |-> c, reason |-> r]

\* A plausible slip in _analyze_local: the mixed case scored as no signal.
AnalyzeLocalMixedAsNone(text) ==
    LET bull == Search(BULLISH_RE, text)
        bear == Search(BEARISH_RE, text)
    IN  IF bull /\ ~bear
        THEN SentimentResult("BULLISH", 75, <<"Supply disruption keyword detected">>)
        ELSE IF bear /\ ~bull
        THEN SentimentResult("BEARISH", 70, <<"Supply recovery keyword detected">>)
        ELSE SentimentResult("NEUTRAL", 30, <<"No strong directional keyword">>)

\* AsyncSentimentAnalyzer._analyze_local
AnalyzeLocal(text) ==
    LET bull == Search(BULLISH_RE, text)
        bear == Search(BEARISH_RE, text)
    IN  IF bull /\ ~bear
        THEN SentimentResult("BULLISH", 75, <<"Supply disruption keyword detected">>)
        ELSE IF bear /\ ~bull
        THEN SentimentResult("BEARISH", 70, <<"Supply recovery keyword detected">>)
        ELSE IF bull /\ bear
        THEN SentimentResult("NEUTRAL", 40, <<"Mixed signals in text">>)
        ELSE SentimentResult("NEUTRAL", 30, <<"No strong directional keyword">>)

\* What the remote call gives back.  kind: "raise" (the call raised exc:
\* timeout, API or network error), "no_choices" (resp.choices is empty),
\* "empty" (message.content is None or ""), "no_json" (no {...} in the
\* content), "bad_json" ({...} that json.loads rejects), "object" (a JSON
\* object with the given fields).  A field is [t |-> "missing"] or carries a
\* value; a confidence is a number (or numeric string), a non-numeric string
\* or null.
Missing == [t |-> "missing", v |-> 0, s |-> ""]
Num(n) == [t |-> "num", v |-> n, s |-> ""]
Str(x) == [t |-> "str", v |-> 0, s |-> x]
Null == [t |-> "null", v |-> 0, s |-> ""]

Reply(k, e, s, c, r) ==
    [kind |-> k, exc |-> e, sentiment |-> s, confidence |-> c, reason |-> r]

FailedReplies ==
    {Reply("raise", "APITimeoutError", Missing, Missing, Missing),
     Reply("raise", "APIConnectionError", Missing, Missing, Missing),
     Reply("no_choices", "", Missing, Missing, Missing),
     Reply("no_json", "", Missing, Missing, Missing),
     Reply("bad_json", "", Missing, Missing, Missing)}

ObjectReplies ==
    {Reply("empty", "", Missing, Missing, Missing)} \cup
    {Reply("object", "", s, c, r) :
        s \in {Missing, Str("BULLISH"), Str("bearish"), Str("NEUTRAL"), Str("POSITIVE")},
        c \in {Missing, Num(0), Num(90), Num(100), Num(150), Num(-20),
               Str("high"), Null},
        r \in {Missing, Str("tight supply")}}

Replies == FailedReplies \cup ObjectReplies

\* str.upper()
Upper(s) == IF s = "bearish" THEN "BEARISH" ELSE s

\* AsyncSentimentAnalyzer._extract_json: the parsed object, or the exception.
ExtractJson(reply) ==
    CASE reply.kind = "no_json" -> [ok |-> FALSE, exc |-> "ValueError"]
      [] reply.kind = "bad_json" -> [ok |-> FALSE, exc |-> "JSONDecodeError"]
      [] OTHER -> [ok |-> TRUE, exc |-> ""]

\* A plausible slip: the fallback returns the default SentimentResult().
LlmFallbackDefault(text, exc) ==
    SentimentResult("NEUTRAL", 50, <<"LLM fallback", exc>>)

\* The except branch of _analyze_llm (lines 112-116).
LlmFallback(text, exc) ==
    LET result == AnalyzeLocal(text)
    IN  [result EXCEPT !.reason = <<"LLM fallback", exc>> \o result.reason]

\* AsyncSentimentAnalyzer._analyze_llm, given what the remote call gave back.
AnalyzeLlm(text, reply) ==
    IF reply.kind = "raise" THEN LlmFallback(text, reply.exc)
    ELSE IF reply.kind = "no_choices" THEN LlmFallback(text, "IndexError")
    ELSE IF ~ExtractJson(reply).ok THEN LlmFallback(text, ExtractJson(reply).exc)
    ELSE LET s0 == IF reply.sentiment.t = "missing" THEN "NEUTRAL"
                   ELSE Upper(reply.sentiment.s)
             sentiment == IF s0 \in Sentiments THEN s0 ELSE "NEUTRAL"
             c == reply.confidence
         IN  IF c.t = "str" THEN LlmFallback(text, "ValueError")
             ELSE IF c.t = "null" THEN LlmFallback(text, "TypeError")
             ELSE SentimentResult(
                    sentiment,
                    IF c.t = "missing" THEN 50 ELSE c.v,
                    IF reply.reason.t = "missing" THEN <<"">> ELSE <<reply.reason.s>>)

\* AsyncSentimentAnalyzer.analyze: llm is "self._llm_client is not None".
Analyze(llm, text, reply) ==
    IF llm THEN AnalyzeLlm(text, reply) ELSE AnalyzeLocal(text)

\* ---------------------------------------------------------------- config.py
\* RULES, in declaration order (a dict keeps insertion order).  A pattern with
\* a gap (lng.{0,20}strike, train\s+\d) is kept as its adjacent-words case.
RuleOrder ==
    <<"LNG_SUPPLY", "AUSTRALIA_LNG", "US_EXPORT", "JAPAN_POWER", "OIL_MACRO",
      "SHIPPING", "LABOR_STRIKE">>

RULES ==
    [LNG_SUPPLY |->
        {<<"gorgon">>, <<"prelude">>, <<"wheatstone">>, <<"qatar">>,
         <<"north", "field">>, <<"force", "majeure">>, <<"outage">>,
         <<"shutdown">>, <<"lng", "terminal">>},
     AUSTRALIA_LNG |->
        {<<"woodside">>, <<"ichthys">>, <<"darwin", "lng">>, <<"gladstone">>,
         <<"pluto", "lng">>},
     US_EXPORT |->
        {<<"freeport">>, <<"sabine", "pass">>, <<"cheniere">>,
         <<"liquefaction">>, <<"train", "2">>, <<"cameron", "lng">>,
         <<"corpus", "christi">>},
     JAPAN_POWER |->
        {<<"jepx">>, <<"tepco">>, <<"kansai", "electric">>,
         <<"nuclear", "restart">>, <<"mihama">>, <<"takahama">>,
         <<"thermal", "limit">>, <<"sendai", "reactor">>},
     OIL_MACRO |->
        {<<"opec", "cut">>, <<"opec", "quota">>, <<"opec", "meet">>,
         <<"opec", "output">>, <<"brent", "crude">>, <<"wti", "crude">>,
         <<"crude", "oil">>, <<"oil", "embargo">>, <<"strategic", "reserve">>},
     SHIPPING |->
        {<<"panama", "draft">>, <<"suez", "traffic">>, <<"maran", "gas">>,
         <<"lng", "carrier">>, <<"charter", "rate">>},
     LABOR_STRIKE |->
        {<<"lng", "strike">>, <<"gas", "strike">>, <<"offshore", "alliance">>,
         <<"work", "ban">>, <<"industrial", "action">>,
         <<"chevron", "strike">>, <<"woodside", "strike">>}]

\* The alternatives of RULES that allow a gap, in full: RULES above holds
\* their adjacent-words case.
GAP_RULES ==
    [LNG_SUPPLY |-> {},
     AUSTRALIA_LNG |-> {},
     US_EXPORT |-> {},
     JAPAN_POWER |-> {},
     OIL_MACRO |->
        {Gap("opec", 10, "cut"), Gap("opec", 10, "quota"),
         Gap("opec", 10, "meet"), Gap("opec", 10, "output"),
         Gap("strategic", 5, "reserve")},
     SHIPPING |-> {Gap("panama", 15, "draft"), Gap("suez", 15, "traffic")},
     LABOR_STRIKE |->
        {Gap("lng", 20, "strike"), Gap("gas", 20, "strike"),
         Gap("chevron", 15, "strike"), Gap("woodside", 15, "strike")}]

\* self._rules[cat].search(text)
RuleSearch(cat, text) ==
    \/ Search(RULES[cat], text)
    \/ \E g \in GAP_RULES[cat] : GapOccurs(g, LowerText(text))

ASSET_MAP ==
    [LNG_SUPPLY |-> <<"UNG", "TTF=F">>,
     AUSTRALIA_LNG |-> <<"UNG">>,
     US_EXPORT |-> <<"EQT", "AR">>,
     JAPAN_POWER |-> <<"9501.T", "9503.T">>,
     OIL_MACRO |-> <<"CL=F", "XOM">>,
     SHIPPING |-> <<"UNG">>,
     LABOR_STRIKE |-> <<"UNG", "TTF=F">>]

NOISE_PATTERN ==
    {<<"climate", "change">>, <<"net", "zero">>, <<"netzero">>,
     <<"activist">>, <<"protest">>, <<"webinar">>, <<"podcast">>,
     <<"hiring">>, <<"green", "washing">>, <<"greenwashing">>}

WHITELIST_DIDS == {}

WHITELIST_HANDLES ==
    {"javierblas.bsky.social", "faborrell.bsky.social",
     "energyintel.bsky.social"}

CROSS_COMMODITY_KEYWORDS ==
    {<<"lng">>, <<"lng", "terminal">>, <<"lng", "cargo">>, <<"lng", "carrier">>,
     <<"jkm">>, <<"ttf">>, <<"natural", "gas">>, <<"gas", "price">>,
     <<"gas", "market">>, <<"henry", "hub">>, <<"nbp">>,
     <<"spot", "cargo">>, <<"tender", "offer">>, <<"fob", "cargo">>,
     <<"des", "cargo">>, <<"force", "majeure">>,
     <<"jepx">>, <<"japan", "power">>, <<"tepco">>, <<"nuclear", "restart">>,
     <<"thermal", "limit">>,
     <<"freeport", "lng">>, <<"sabine", "pass">>, <<"cheniere">>,
     <<"cameron", "lng">>, <<"corpus", "christi">>, <<"gorgon">>,
     <<"prelude">>, <<"wheatstone">>, <<"ichthys">>, <<"darwin", "lng">>,
     <<"pluto", "lng">>, <<"woodside">>, <<"qatar", "energy">>,
     <<"north", "field">>,
     <<"opec">>, <<"brent", "crude">>, <<"wti", "crude">>, <<"crude", "oil">>,
     <<"oil", "embargo">>,
     <<"maran", "gas">>, <<"panama", "canal">>, <<"suez", "canal">>,
     <<"charter", "rate">>,
     <<"offshore", "alliance">>, <<"work", "ban">>, <<"industrial", "action">>}

Modes == {"keyword", "whitelist", "both"}

\* ------------------------------------------------------------ classifier.py
RECURSIVE DedupKeepLast(_)
\* A dedup that keeps each ticker's last occurrence.
DedupKeepLast(s) ==
    IF s = <<>> THEN <<>>
    ELSE LET back == DedupKeepLast(Tail(s))
         IN  IF \E i \in 1..Len(back) : back[i] = Head(s)
             THEN back ELSE <<Head(s)>> \o back

RECURSIVE Dedup(_)
\* list(dict.fromkeys(s)): first occurrences, in order.
Dedup(s) ==
    IF s = <<>> THEN <<>>
    ELSE LET front == Dedup(SubSeq(s, 1, Len(s) - 1))
             last == s[Len(s)]
         IN  IF \E i \in 1..Len(front) : front[i] = last
             THEN front ELSE Append(front, last)

RECURSIVE MatchRulesPrepend(_, _)
\* A rule loop that puts each match in front (insert(0, ...)).
MatchRulesPrepend(text, i) ==
    IF i > Len(RuleOrder) THEN [rules |-> <<>>, tickers |-> <<>>]
    ELSE LET rest == MatchRulesPrepend(text, i + 1)
             cat == RuleOrder[i]
         IN  IF RuleSearch(cat, text)
             THEN [rules |-> rest.rules \o <<cat>>,
                   tickers |-> rest.tickers \o ASSET_MAP[cat]]
             ELSE rest

RECURSIVE MatchRules(_, _)
\* The loop of classify over self._rules.items(), rules i..7: the matched
\* categories and the concatenated tickers.
MatchRules(text, i) ==
    IF i > Len(RuleOrder) THEN [rules |-> <<>>, tickers |-> <<>>]
    ELSE LET rest == MatchRules(text, i + 1)
             cat == RuleOrder[i]
         IN  IF RuleSearch(cat, text)
             THEN [rules |-> <<cat>> \o rest.rules,
                   tickers |-> ASSET_MAP[cat] \o rest.tickers]
             ELSE rest

NoSignal == [ok |-> FALSE, category |-> "", tickers |-> <<>>, matched_rules |-> <<>>]

\* A classify that looks at the noise pattern only when no rule matches.
ClassifyRulesFirst(text) ==
    LET m == MatchRules(text, 1)
    IN  IF m.rules = <<>> THEN NoSignal
        ELSE [ok |-> TRUE, category |-> m.rules[1],
              tickers |-> Dedup(m.tickers), matched_rules |-> m.rules]

\* FastClassifier.classify: ok is FALSE for None.
Classify(text) ==
    IF Search(NOISE_PATTERN, text) THEN NoSignal
    ELSE LET m == MatchRules(text, 1)
         IN  IF m.rules = <<>> THEN NoSignal
             ELSE [ok |-> TRUE, category |-> m.rules[1],
                   tickers |-> Dedup(m.tickers), matched_rules |-> m.rules]

\* ------------------------------------------------------------- harvester.py
\* An inbound frame, by what json.loads and the .get chain see.
\*   json:    "invalid" | "nonobject" (a list, number, string, null) | "object"
\*   commit:  "missing" | "empty" (falsy: {}, null, 0) | "nonobject" (a
\*            non-empty string or list) | "object"
\*   record:  "missing" | "nonobject" (null, a string, a list) | "object"
\*   text, did: Missing, Null (any non-string) or Str
Envelope(j, k, c, o, col, r, t, d) ==
    [json |-> j, kind |-> k, commit |-> c, operation |-> o, collection |-> col,
     record |-> r, text |-> t, did |-> d]

\* The record's text: absent, a non-string, or a string (its words once
\* stripped: none for an empty or whitespace-only string).
NoText == [t |-> "missing", s |-> <<>>]
NonStringText == [t |-> "null", s |-> <<>>]
TextField(words) == [t |-> "str", s |-> words]

PostCollection == "app.bsky.feed.post"

ParseNone == [tag |-> "none", text |-> <<>>, did |-> Missing]
ParseRaise == [tag |-> "raise", text |-> <<>>, did |-> Missing]

\* A parse that does not look at the operation.
ParseAnyOperation(env) ==
    IF env.json = "invalid" THEN ParseNone
    ELSE IF env.json = "nonobject" THEN ParseRaise
    ELSE IF env.kind # "commit" THEN ParseNone
    ELSE IF env.commit \in {"missing", "empty"} THEN ParseNone
    ELSE IF env.commit = "nonobject" THEN ParseRaise
    ELSE IF env.collection # PostCollection THEN ParseNone
    ELSE IF env.record = "nonobject" THEN ParseRaise
    ELSE IF env.record = "missing" \/ env.text.t = "missing" THEN ParseNone
    ELSE IF env.text.t # "str" THEN ParseRaise
    ELSE IF env.text.s = <<>> THEN ParseNone
    ELSE [tag |-> "ok", text |-> env.text.s,
          did |-> IF env.did.t = "missing" THEN Str("unknown") ELSE env.did]

\* _parse_jetstream_msg: "none" for None, "raise" for an exception that
\* leaves the function (AttributeError of .get or .strip on a non-dict or
\* non-string), "ok" for (text, did).
ParseJetstreamMsg(env) ==
    IF env.json = "invalid" THEN ParseNone
    ELSE IF env.json = "nonobject" THEN ParseRaise
    ELSE IF env.kind # "commit" THEN ParseNone
    ELSE IF env.commit \in {"missing", "empty"} THEN ParseNone
    ELSE IF env.commit = "nonobject" THEN ParseRaise
    ELSE IF env.operation # "create" THEN ParseNone
    ELSE IF env.collection # PostCollection THEN ParseNone
    ELSE IF env.record = "nonobject" THEN ParseRaise
    ELSE IF env.record = "missing" \/ env.text.t = "missing" THEN ParseNone
    ELSE IF env.text.t # "str" THEN ParseRaise
    ELSE IF env.text.s = <<>> THEN ParseNone
    ELSE [tag |-> "ok", text |-> env.text.s,
          did |-> IF env.did.t = "missing" THEN Str("unknown") ELSE env.did]

\* _passes_keyword_filter
PassesKeywordFilter(text) ==
    \E kw \in CROSS_COMMODITY_KEYWORDS : Occurs(kw, LowerText(text))

\* The identity a handle resolves to (resolveHandle of bsky.social).
HandleDid(h) ==
    CASE h = "javierblas.bsky.social" -> "did:plc:blas"
      [] h = "faborrell.bsky.social" -> "did:plc:borrell"
      [] h = "energyintel.bsky.social" -> "did:plc:energyintel"
      [] OTHER -> "did:plc:none"

\* What warm_up may leave in _resolved_dids: every lookup fails, or every
\* handle resolves.
ResolveOutcomes(handles) ==
    {{}, {HandleDid(h) : h \in handles}}

VARIABLES
    mode,           \* settings.HARVESTER_MODE.lower()
    llm,            \* AsyncSentimentAnalyzer._llm_client is not None
    wl_dids,        \* WhitelistFilter._dids
    wl_handles,     \* WhitelistFilter._handles
    resolved_dids,  \* WhitelistFilter._resolved_dids
    hpc,            \* where JetstreamClient.start is
    backoff,        \* the local backoff of start
    stats,          \* JetstreamClient._stats
    queue,          \* the asyncio.Queue's items
    unfinished,     \* the asyncio.Queue's _unfinished_tasks
    wpc,            \* where each worker is
    witem,          \* the (text, author) a worker holds
    wresult,        \* the SentimentResult a worker holds
    werrors,        \* worker exceptions logged (main.py line 113)
    sessionLog,     \* the log of start and _listen: 0 for "Connected to
                    \* Jetstream firehose" (line 187), n > 0 for "reconnecting
                    \* in n s" (lines 169, 173), oldest first
    dropped,        \* "Output queue full" warnings logged (harvester.py line 209)
    pub,            \* the log of the funnel, one entry per dequeued item:
                    \* what classify said (main.py line 57), whether
                    \* analyze returned (line 70) and the calls of
                    \* watchtower.publish (line 92); kept only when pub.on
    an,             \* one analyze call, for the sentiment stage on its own
    cl,             \* one classify call, for the classifier on its own
    flt             \* one _should_process call, for the filter on its own

vars ==
    <<mode, llm, wl_dids, wl_handles, resolved_dids, hpc, backoff, stats,
      queue, unfinished, wpc, witem, wresult, werrors, sessionLog, dropped,
      pub, an, cl, flt>>

configVars == <<mode, llm, wl_dids, wl_handles>>
harvesterVars == <<resolved_dids, hpc, backoff, stats, sessionLog, dropped>>
queueVars == <<queue, unfinished>>
workerVars == <<wpc, witem, wresult, werrors, pub>>
probeVars == <<an, cl, flt>>

Workers == 1..NumWorkers

\* A synchronous client (OpenAI in place of AsyncOpenAI): the remote call
\* keeps the event loop until it returns.
SyncRemoteCall(w) == wpc[w] = "analyze"

\* _analyze_llm, line 91: the remote call is awaited on the AsyncOpenAI
\* client, so a worker inside its call does not hold the event loop.
HoldsLoopInCall(w) == FALSE

\* time.sleep in place of asyncio.sleep: the backoff wait keeps the event
\* loop until it is over.
BlockingSleep == hpc = "sleeping"

\* start, lines 170 and 174: the backoff wait is an awaited asyncio.sleep,
\* so the ingestion task does not hold the event loop while it waits.
HoldsLoopInSleep == FALSE

\* run_live, lines 134-139: the ingestion task and the workers are tasks of
\* one event loop; a task runs when no other task holds the loop.
LoopFreeForHarvester == \A v \in Workers : ~HoldsLoopInCall(v)

LoopFreeFor(w) ==
    /\ ~HoldsLoopInSleep
    /\ \A v \in Workers \ {w} : ~HoldsLoopInCall(v)

\* WhitelistFilter.is_whitelisted (did is a string)
IsWhitelisted(did) == Lower(did) \in wl_dids \/ Lower(did) \in resolved_dids

\* WhitelistFilter.is_empty
IsEmpty == wl_dids = {} /\ wl_handles = {} /\ resolved_dids = {}

\* A "both" that asks for the whitelist and the keyword at once.
ShouldProcessBothAnd(text, did, st) ==
    LET wl_hit == IsWhitelisted(did)
        kw_hit == PassesKeywordFilter(text)
        kw == [accept |-> kw_hit,
               stats |-> [st EXCEPT !.passed_keyword = @ + (IF kw_hit THEN 1 ELSE 0)]]
        wl == [accept |-> wl_hit,
               stats |-> [st EXCEPT !.passed_whitelist = @ + (IF wl_hit THEN 1 ELSE 0)]]
    IN  IF mode = "whitelist" THEN (IF IsEmpty THEN kw ELSE wl)
        ELSE IF mode = "both" THEN (IF wl_hit THEN kw ELSE [kw EXCEPT !.accept = FALSE])
        ELSE kw

\* JetstreamClient._should_process: the decision and the counters after it.
ShouldProcess(text, did, st) ==
    LET wl_hit == IsWhitelisted(did)
        kw_hit == PassesKeywordFilter(text)
        kw == [accept |-> kw_hit,
               stats |-> [st EXCEPT !.passed_keyword = @ + (IF kw_hit THEN 1 ELSE 0)]]
        wl == [accept |-> wl_hit,
               stats |-> [st EXCEPT !.passed_whitelist = @ + (IF wl_hit THEN 1 ELSE 0)]]
    IN  IF mode = "whitelist" THEN (IF IsEmpty THEN kw ELSE wl)
        ELSE IF mode = "both" THEN (IF wl_hit THEN wl ELSE kw)
        ELSE kw

\* ------------------------------------------------------------------ inputs
PipeTexts == {<<"gorgon", "Outage">>, <<"gorgon", "webinar">>, <<"hello">>}

PipeDids == {Str("did:plc:blas"), Missing, Null}

WellFormed(t, d) ==
    Envelope("object", "commit", "object", "create", PostCollection, "object", t, d)

BaseEnvelope == WellFormed(TextField(<<"gorgon", "Outage">>), Str("did:plc:blas"))

Envelopes ==
    {WellFormed(TextField(t), d) : t \in PipeTexts, d \in PipeDids} \cup
    {[BaseEnvelope EXCEPT !.json = j] : j \in {"invalid", "nonobject"}} \cup
    {[BaseEnvelope EXCEPT !.kind = k] : k \in {"identity", "missing"}} \cup
    {[BaseEnvelope EXCEPT !.commit = c] : c \in {"missing", "empty", "nonobject"}} \cup
    {[BaseEnvelope EXCEPT !.operation = o] : o \in {"delete", "missing"}} \cup
    {[BaseEnvelope EXCEPT !.collection = "app.bsky.feed.like"]} \cup
    {[BaseEnvelope EXCEPT !.record = r] : r \in {"missing", "nonobject"}} \cup
    {[BaseEnvelope EXCEPT !.text = t] : t \in {NoText, NonStringText, TextField(<<>>)}}

PipeReplies ==
    {Reply("raise", "APITimeoutError", Missing, Missing, Missing),
     Reply("object", "", Str("BULLISH"), Num(90), Str("tight supply"))}

NoItem == [text |-> <<>>, did |-> ""]
NoResult == SentimentResult("", 0, <<>>)
\* No remote call was made.
NoReply == Reply("none", "", Missing, Missing, Missing)
NoCall == [pc |-> "idle", llm |-> FALSE, text |-> <<>>, reply |-> NoReply, result |-> NoResult]

\* No classify call, no _should_process call.
NoClassify == [pc |-> "idle", text |-> <<>>, signal |-> NoSignal]
NoFilter == [pc |-> "idle", text |-> <<>>, did |-> "", accept |-> FALSE]

\* The funnel's log: not kept, or empty.
PubOff == [on |-> FALSE, log |-> <<>>, reads |-> <<>>]
PubEmpty == [on |-> TRUE, log |-> <<>>, reads |-> <<>>]

\* The ingestion task read an envelope whose item the filter accepted;
\* queued is "put_nowait took it".
PubRead(p, item, queued) ==
    IF ~p.on THEN p
    ELSE [p EXCEPT !.reads = Append(@, [text |-> item.text, did |-> item.did,
                                         queued |-> queued])]

\* The entry of the item worker w took last.
Cur(log, w) ==
    CHOOSE i \in 1..Len(log) :
        log[i].worker = w /\ \A j \in (i + 1)..Len(log) : log[j].worker # w

\* Worker w took an item off the queue and classify answered; started is
\* "process_text went on to analyze", analyzed is "analyze has returned
\* already" (no remote call to await), during is where start was then; at
\* will be the rank of the item's first publish call among all publish calls.
PubTake(p, w, item, accepted, started, analyzed, during) ==
    IF ~p.on THEN p
    ELSE [p EXCEPT !.log = Append(@, [worker |-> w, text |-> item.text,
                                       did |-> item.did,
                                       accepted |-> accepted,
                                       started |-> started,
                                       analyzed |-> analyzed,
                                       calls |-> 0, failed |-> 0,
                                       at |-> 0, during |-> during])]

\* analyze returned to worker w.
PubAnalyzed(p, w) ==
    IF ~p.on THEN p
    ELSE [p EXCEPT !.log[Cur(p.log, w)].analyzed = TRUE]

\* Worker w called watchtower.publish; the call returned or raised.
PubCall(p, w, raised) ==
    IF ~p.on THEN p
    ELSE [p EXCEPT !.log[Cur(p.log, w)].calls = @ + 1,
                   !.log[Cur(p.log, w)].failed = @ + (IF raised THEN 1 ELSE 0),
                   !.log[Cur(p.log, w)].at =
                       IF @ # 0 THEN @
                       ELSE 1 + Cardinality({i \in 1..Len(p.log) : p.log[i].at # 0})]

Min(a, b) == IF a < b THEN a ELSE b

\* -------------------------------------------------------------------- Init
\* run_live: an empty queue, the harvester about to warm up, two workers at
\* queue.get().  The mode and the remote capability come from the environment.
Init ==
    /\ mode \in Modes
    /\ llm \in BOOLEAN
    /\ wl_dids = WHITELIST_DIDS
    /\ wl_handles = WHITELIST_HANDLES
    /\ resolved_dids = {}
    /\ hpc = "warm_up"
    /\ backoff = BackoffStart
    /\ stats = [received |-> 0, passed_whitelist |-> 0, passed_keyword |-> 0, queued |-> 0]
    /\ queue = <<>>
    /\ unfinished = 0
    /\ wpc = [w \in Workers |-> "get"]
    /\ witem = [w \in Workers |-> NoItem]
    /\ wresult = [w \in Workers |-> NoResult]
    /\ werrors = 0
    /\ sessionLog = <<>>
    /\ dropped = 0
    /\ pub = PubOff
    /\ an = NoCall
    /\ cl = NoClassify
    /\ flt = NoFilter

\* ------------------------------------------------------- JetstreamClient.start
\* The ingestion task has steps left in this run.
StepsLeft == stats.received + Len(sessionLog) < MaxSteps

\* start, lines 155-164: warm_up, then backoff = 1 and the first _listen.
WarmUp ==
    /\ hpc = "warm_up"
    /\ LoopFreeForHarvester
    /\ resolved_dids' \in ResolveOutcomes(wl_handles)
    /\ backoff' = BackoffStart
    /\ hpc' = "connecting"
    /\ UNCHANGED <<configVars, stats, sessionLog, dropped, queueVars, workerVars, probeVars>>

\* The except branches of start (lines 168-175) up to the sleep: the session
\* ended with an exception and start sleeps for backoff seconds.
SessionFailed ==
    /\ hpc' = "sleeping"
    /\ sessionLog' = Append(sessionLog, backoff)
    /\ UNCHANGED <<resolved_dids, backoff>>

\* A start without the "except Exception" branch: the exception leaves start.
RaiseToCaller == "raised"

\* start, lines 172-175: an exception that is no transport error is caught
\* as well, and start sleeps.
AfterUnexpectedError == "sleeping"

\* The "except Exception" branch of start up to the sleep.
SessionCrashed ==
    /\ hpc' = AfterUnexpectedError
    /\ sessionLog' = Append(sessionLog, backoff)
    /\ UNCHANGED <<resolved_dids, backoff>>

\* _listen: websockets.connect succeeds and _read_loop starts.
ConnectOk ==
    /\ hpc = "connecting"
    /\ LoopFreeForHarvester
    /\ StepsLeft
    /\ hpc' = "connected"
    /\ sessionLog' = Append(sessionLog, 0)
    /\ UNCHANGED <<configVars, resolved_dids, backoff, stats, dropped, queueVars, workerVars, probeVars>>

\* _listen: websockets.connect raises (OSError, InvalidStatus, TimeoutError).
ConnectFail ==
    /\ hpc = "connecting"
    /\ LoopFreeForHarvester
    /\ StepsLeft
    /\ SessionFailed
    /\ UNCHANGED <<configVars, stats, dropped, queueVars, workerVars, probeVars>>

\* _read_loop: the connection drops (ConnectionClosedError, OSError).
ConnectionLost ==
    /\ hpc = "connected"
    /\ LoopFreeForHarvester
    /\ SessionFailed
    /\ UNCHANGED <<configVars, stats, dropped, queueVars, workerVars, probeVars>>

\* _read_loop: the peer closes cleanly; "async for raw in ws" ends, _listen
\* returns and the while loop of start calls _listen again at once.
ConnectionClosedOk ==
    /\ hpc = "connected"
    /\ LoopFreeForHarvester
    /\ hpc' = "connecting"
    /\ UNCHANGED <<configVars, resolved_dids, backoff, sessionLog, stats, dropped, queueVars, workerVars, probeVars>>

\* The backoff after the sleep.
NextBackoff(b) == Min(b * 2, BackoffCap)

\* start, lines 170-171 / 174-175: the sleep ends, the backoff doubles.
SleepDone ==
    /\ hpc = "sleeping"
    /\ LoopFreeForHarvester
    /\ backoff' = NextBackoff(backoff)
    /\ hpc' = "connecting"
    /\ UNCHANGED <<configVars, resolved_dids, sessionLog, stats, dropped, queueVars, workerVars, probeVars>>

\* --------------------------------------------------------------- the queue
\* A put that ignores maxsize.
PutNowaitUnbounded(q, item) == [full |-> FALSE, queue |-> Append(q, item)]

\* A filter that resolves the source it is asked about when it does not
\* know it, and keeps the answer.
ResolveOnMiss(did) == resolved_dids \cup {Lower(did)}

\* is_whitelisted, lines 69-71, as _should_process calls it: a lookup in
\* the two sets; nothing is resolved and nothing is stored.
ResolvedAfterFilter(did) == resolved_dids

\* _read_loop, line 193: the session is open and the loop is at its
\* "async for"; the next frame can be handled.
ReadReady ==
    /\ hpc = "connected"
    /\ LoopFreeForHarvester
    /\ StepsLeft

\* An asyncio.LifoQueue in place of the Queue: the newest item is the next
\* one out.
PutNowaitLifo(q, item) ==
    IF Len(q) >= MaxSize
    THEN [full |-> TRUE, queue |-> q]
    ELSE [full |-> FALSE, queue |-> <<item>> \o q]

\* asyncio.Queue.put_nowait on a queue of maxsize MaxSize: full is QueueFull
\* raised.
PutNowait(q, item) ==
    IF Len(q) >= MaxSize
    THEN [full |-> TRUE, queue |-> q]
    ELSE [full |-> FALSE, queue |-> Append(q, item)]

\* An awaited queue.put() in place of put_nowait: the task suspends.
BlockOnFull == "blocked"

\* _read_loop, lines 208-209: QueueFull is caught and the loop goes on.
AfterQueueFull == "connected"

\* --------------------------------------------------------------- _read_loop
\* One turn of "async for raw in ws" (lines 192-213): nothing is awaited
\* between the frame's arrival and the next read.
ReadEnvelope(env) ==
    /\ ReadReady
    /\ LET st1 == [stats EXCEPT !.received = @ + 1]
           parsed == ParseJetstreamMsg(env)
       IN  IF parsed.tag = "none"
           THEN /\ stats' = st1
                /\ UNCHANGED <<resolved_dids, hpc, backoff, sessionLog, dropped, queueVars, pub>>
           ELSE IF parsed.tag = "raise" \/ parsed.did.t # "str"
           \* AttributeError, out of _parse_jetstream_msg or of did.lower() in
           \* is_whitelisted: caught by "except Exception" in start.
           THEN /\ stats' = st1
                /\ SessionCrashed
                /\ UNCHANGED <<dropped, queueVars, pub>>
           ELSE LET sp == ShouldProcess(parsed.text, parsed.did.s, st1)
                    item == [text |-> parsed.text, did |-> parsed.did.s]
                    put == PutNowait(queue, item)
                IN  IF ~sp.accept
                    THEN /\ stats' = sp.stats
                         /\ resolved_dids' = ResolvedAfterFilter(parsed.did.s)
                         /\ UNCHANGED <<hpc, backoff, sessionLog, dropped, queueVars, pub>>
                    ELSE /\ stats' = [sp.stats EXCEPT !.queued = @ + 1]
                         /\ queue' = put.queue
                         /\ unfinished' = IF put.full THEN unfinished ELSE unfinished + 1
                         /\ dropped' = IF put.full THEN dropped + 1 ELSE dropped
                         /\ hpc' = IF put.full THEN AfterQueueFull ELSE "connected"
                         /\ pub' = PubRead(pub, item, ~put.full)
                         /\ resolved_dids' = ResolvedAfterFilter(parsed.did.s)
                         /\ UNCHANGED <<backoff, sessionLog>>
    /\ UNCHANGED <<configVars, wpc, witem, wresult, werrors, probeVars>>

\* ------------------------------------------------------------------ workers
\* A worker without the try/except of lines 110-113: the exception ends it.
WorkerDies == "dead"

\* A worker that calls publish again when it failed.
RetryPublish == "publish"

\* worker, lines 112-115: the exception is logged, task_done() is called and
\* the while loop goes back to queue.get().
AfterWorkerException == "get"

\* A worker that acknowledges only what it published: task_done() after
\* the await, outside the finally clause, is skipped when process_text
\* raises.
TaskDoneUnlessRaised(u, raised) == IF raised THEN u ELSE u - 1

\* worker, lines 114-115: task_done() in the finally clause, once for the
\* item taken, whether process_text returned or raised.
TaskDone(u, raised) == u - 1

\* A process_text without the "if signal is None: return" of lines 58-59.
ProceedsAlways(signal) == TRUE

\* process_text, lines 58-59: only a signal that is not None goes on.
ProceedsToAnalyze(signal) == signal.ok

\* A worker that starts process_text as a task of its own
\* (asyncio.create_task) and goes back to queue.get() at once.
WorkerNeverWaits(w) == TRUE

\* worker, lines 109-111: process_text is awaited, so a worker is at
\* queue.get() only when it has no item in hand.
WorkerAtGet(w) == wpc[w] = "get"

\* worker, line 109: "await queue.get()" returns when the worker is there,
\* an item is queued and the loop runs the worker.
WorkerGetReady(w) ==
    /\ WorkerAtGet(w)
    /\ LoopFreeFor(w)
    /\ queue # <<>>

\* process_text, lines 70 and 92: the worker resumes from the await it is
\* suspended at once the awaited call is over and the loop runs the worker.
WorkerResumes(w, at) ==
    /\ wpc[w] = at
    /\ LoopFreeFor(w)

\* worker, line 109, then process_text up to its first suspension: the item
\* is dequeued and classified; a rejected item is acknowledged at once, an
\* accepted one goes to analyze (awaiting the remote call when there is a
\* client, computed on the spot when there is none) and on to publish.
WorkerGet(w) ==
    /\ WorkerGetReady(w)
    /\ LET item == Head(queue)
           signal == Classify(item.text)
       IN  /\ queue' = Tail(queue)
           /\ pub' = PubTake(pub, w, item, signal.ok, ProceedsToAnalyze(signal),
                             ProceedsToAnalyze(signal) /\ ~llm, hpc)
           /\ IF ~ProceedsToAnalyze(signal)
              THEN /\ unfinished' = TaskDone(unfinished, FALSE)
                   /\ UNCHANGED <<wpc, witem, wresult>>
              ELSE /\ unfinished' = unfinished
                   /\ witem' = [witem EXCEPT ![w] = item]
                   /\ IF llm
                      THEN /\ wpc' = [wpc EXCEPT ![w] = "analyze"]
                           /\ UNCHANGED wresult
                      ELSE /\ wpc' = [wpc EXCEPT ![w] = "publish"]
                           /\ wresult' = [wresult EXCEPT ![w] = Analyze(FALSE, item.text, NoReply)]
    /\ UNCHANGED <<configVars, harvesterVars, werrors, probeVars>>

\* process_text, line 70: the remote call comes back (or raises inside
\* _analyze_llm) and analyze returns.
WorkerAnalyzed(w, reply) ==
    /\ WorkerResumes(w, "analyze")
    /\ wresult' = [wresult EXCEPT ![w] = Analyze(TRUE, witem[w].text, reply)]
    /\ wpc' = [wpc EXCEPT ![w] = "publish"]
    /\ pub' = PubAnalyzed(pub, w)
    /\ UNCHANGED <<configVars, harvesterVars, queueVars, witem, werrors, probeVars>>

\* process_text, lines 79-93: the event is assembled and watchtower.publish
\* returns; then task_done() and back to queue.get().
WorkerPublished(w) ==
    /\ WorkerResumes(w, "publish")
    /\ unfinished' = TaskDone(unfinished, FALSE)
    /\ wpc' = [wpc EXCEPT ![w] = "get"]
    /\ witem' = [witem EXCEPT ![w] = NoItem]
    /\ wresult' = [wresult EXCEPT ![w] = NoResult]
    /\ pub' = PubCall(pub, w, FALSE)
    /\ UNCHANGED <<configVars, harvesterVars, queue, werrors, probeVars>>

\* process_text raises (watchtower.publish fails: file or network I/O):
\* worker's except and finally clauses run.
WorkerFailed(w) ==
    /\ WorkerResumes(w, "publish")
    /\ werrors' = werrors + 1
    /\ unfinished' = TaskDone(unfinished, TRUE)
    /\ wpc' = [wpc EXCEPT ![w] = AfterWorkerException]
    /\ witem' = [witem EXCEPT ![w] = NoItem]
    /\ wresult' = [wresult EXCEPT ![w] = NoResult]
    /\ pub' = PubCall(pub, w, TRUE)
    /\ UNCHANGED <<configVars, harvesterVars, queue, probeVars>>

Next ==
    \/ WarmUp
    \/ ConnectOk
    \/ ConnectFail
    \/ ConnectionLost
    \/ ConnectionClosedOk
    \/ SleepDone
    \/ \E env \in Envelopes : ReadEnvelope(env)
    \/ \E w \in Workers : WorkerGet(w)
    \/ \E w \in Workers, reply \in PipeReplies : WorkerAnalyzed(w, reply)
    \/ \E w \in Workers : WorkerPublished(w)
    \/ \E w \in Workers : WorkerFailed(w)

Spec == Init /\ [][Next]_vars

\* asyncio.sleep(backoff) returns: the event loop's timer fires after backoff
\* (at most 60) seconds.
SpecLive == Spec /\ WF_vars(SleepDone)

\* ------------------------------------------------- the sentiment stage alone
\* One call of AsyncSentimentAnalyzer.analyze on any text, with or without a
\* remote client, and whatever the remote call gives back.
InitAnalyze ==
    /\ mode = "keyword"
    /\ llm = FALSE
    /\ wl_dids = WHITELIST_DIDS
    /\ wl_handles = WHITELIST_HANDLES
    /\ resolved_dids = {}
    /\ hpc = "warm_up"
    /\ backoff = BackoffStart
    /\ stats = [received |-> 0, passed_whitelist |-> 0, passed_keyword |-> 0, queued |-> 0]
    /\ queue = <<>>
    /\ unfinished = 0
    /\ wpc = [w \in Workers |-> "get"]
    /\ witem = [w \in Workers |-> NoItem]
    /\ wresult = [w \in Workers |-> NoResult]
    /\ werrors = 0
    /\ sessionLog = <<>>
    /\ dropped = 0
    /\ pub = PubOff
    /\ cl = NoClassify
    /\ flt = NoFilter
    /\ \E t \in Texts, l \in BOOLEAN :
          \E r \in (IF l THEN Replies ELSE {NoReply}) :
              an = [pc |-> "call", llm |-> l, text |-> t, reply |-> r, result |-> NoResult]

AnalyzeCall ==
    /\ an.pc = "call"
    /\ an' = [an EXCEPT !.pc = "done", !.result = Analyze(an.llm, an.text, an.reply)]
    /\ UNCHANGED <<configVars, harvesterVars, queueVars, workerVars, cl, flt>>

NextAnalyze == AnalyzeCall

SpecAnalyze == InitAnalyze /\ [][NextAnalyze]_vars

\* The pipeline of run_live before anything has run: the harvester about to
\* warm up, an empty queue, both workers at queue.get().
WorkersAtRest ==
    /\ wpc = [w \in Workers |-> "get"]
    /\ witem = [w \in Workers |-> NoItem]
    /\ wresult = [w \in Workers |-> NoResult]
    /\ werrors = 0

AtRest ==
    /\ resolved_dids = {}
    /\ hpc = "warm_up"
    /\ backoff = BackoffStart
    /\ stats = [received |-> 0, passed_whitelist |-> 0, passed_keyword |-> 0, queued |-> 0]
    /\ queue = <<>>
    /\ unfinished = 0
    /\ WorkersAtRest
    /\ sessionLog = <<>>
    /\ dropped = 0

\* ------------------------------------------------------ the classifier alone
ClassifyVocabulary ==
    {"gorgon", "Woodside", "strike", "cheniere", "webinar", "lng", "hello"}

ClassifyTexts == SeqsUpTo(ClassifyVocabulary, MaxWords)

\* One call of FastClassifier.classify on any text.
InitClassify ==
    /\ mode = "keyword"
    /\ llm = FALSE
    /\ wl_dids = WHITELIST_DIDS
    /\ wl_handles = WHITELIST_HANDLES
    /\ AtRest
    /\ pub = PubOff
    /\ an = NoCall
    /\ flt = NoFilter
    /\ \E t \in ClassifyTexts : cl = [pc |-> "call", text |-> t, signal |-> NoSignal]

ClassifyCall ==
    /\ cl.pc = "call"
    /\ cl' = [cl EXCEPT !.pc = "done", !.signal = Classify(cl.text)]
    /\ UNCHANGED <<configVars, harvesterVars, queueVars, workerVars, an, flt>>

NextClassify == ClassifyCall

SpecClassify == InitClassify /\ [][NextClassify]_vars

\* ---------------------------------------------------------- the filter alone
FilterTexts == PipeTexts \cup {<<"Woodside">>}

\* An exact identity of the whitelist (an entry of WHITELIST_DIDS).
ExactDid == "did:plc:desk"

FilterDids ==
    {HandleDid("javierblas.bsky.social"), "DID:PLC:BLAS", ExactDid,
     "did:plc:other", "unknown"}

\* One call of _should_process after warm_up, under any mode, with or
\* without exact identities and handles configured.
InitFilter ==
    /\ mode \in Modes
    /\ llm = FALSE
    /\ wl_dids \in {{}, {ExactDid}}
    /\ wl_handles \in {{}, WHITELIST_HANDLES}
    /\ AtRest
    /\ pub = PubOff
    /\ an = NoCall
    /\ cl = NoClassify
    /\ \E t \in FilterTexts, d \in FilterDids :
          flt = [pc |-> "call", text |-> t, did |-> d, accept |-> FALSE]

FilterCall ==
    /\ flt.pc = "call"
    /\ hpc # "warm_up"
    /\ LET sp == ShouldProcess(flt.text, flt.did, stats)
       IN  /\ flt' = [flt EXCEPT !.pc = "done", !.accept = sp.accept]
           /\ stats' = sp.stats
    /\ UNCHANGED <<configVars, resolved_dids, hpc, backoff, sessionLog, dropped,
                   queueVars, workerVars, an, cl>>

NextFilter == WarmUp \/ FilterCall

SpecFilter == InitFilter /\ [][NextFilter]_vars

\* ---------------------------------------------------------- the funnel alone
\* What a whitelisted author's posts leave on the queue.
FunnelItems ==
    {[text |-> t, did |-> HandleDid("javierblas.bsky.social")] : t \in PipeTexts}

\* The two workers in front of a queue the harvester has filled: mode "both",
\* every handle resolved, one session open, n posts of a whitelisted author
\* read and queued, none taken yet.  The funnel's log is kept.
InitFunnel ==
    /\ mode = "both"
    /\ llm \in BOOLEAN
    /\ wl_dids = WHITELIST_DIDS
    /\ wl_handles = WHITELIST_HANDLES
    /\ resolved_dids = {HandleDid(h) : h \in WHITELIST_HANDLES}
    /\ hpc = "connected"
    /\ backoff = BackoffStart
    /\ sessionLog = <<0>>
    /\ dropped = 0
    /\ queue \in SeqsUpTo(FunnelItems, MaxSize)
    /\ unfinished = Len(queue)
    /\ stats = [received |-> Len(queue), passed_whitelist |-> Len(queue),
                passed_keyword |-> 0, queued |-> Len(queue)]
    /\ WorkersAtRest
    /\ pub = PubEmpty
    /\ an = NoCall
    /\ cl = NoClassify
    /\ flt = NoFilter

NextFunnel ==
    \/ \E w \in Workers : WorkerGet(w)
    \/ \E w \in Workers, reply \in PipeReplies : WorkerAnalyzed(w, reply)
    \/ \E w \in Workers : WorkerPublished(w)
    \/ \E w \in Workers : WorkerFailed(w)

SpecFunnel == InitFunnel /\ [][NextFunnel]_vars

\* The event loop runs every task that is ready: a worker waiting in
\* queue.get() is woken when an item is there for it (asyncio wakes the
\* getters in turn), and a worker suspended in the remote call or in publish
\* resumes once the call returns or raises, which it is assumed to do.
WorkerFair(w) ==
    /\ WF_vars(WorkerGet(w))
    /\ WF_vars(\E reply \in PipeReplies : WorkerAnalyzed(w, reply))
    /\ WF_vars(WorkerPublished(w) \/ WorkerFailed(w))

SpecFunnelLive == SpecFunnel /\ \A w \in Workers : WorkerFair(w)

\* ------------------------------------------------- the pipeline with its log
\* run_live in keyword mode with a remote client, once the first session is
\* open (no handle resolved at warm-up), with the funnel's log kept: what
\* was read and accepted, what each worker took, and the order of the
\* publish calls.
InitOrder ==
    /\ mode = "keyword"
    /\ llm = TRUE
    /\ wl_dids = WHITELIST_DIDS
    /\ wl_handles = WHITELIST_HANDLES
    /\ resolved_dids = {}
    /\ hpc = "connected"
    /\ backoff = BackoffStart
    /\ sessionLog = <<0>>
    /\ stats = [received |-> 0, passed_whitelist |-> 0, passed_keyword |-> 0, queued |-> 0]
    /\ dropped = 0
    /\ queue = <<>>
    /\ unfinished = 0
    /\ WorkersAtRest
    /\ pub = PubEmpty
    /\ an = NoCall
    /\ cl = NoClassify
    /\ flt = NoFilter

\* What the peer sends: two posts that differ in their source only (the
\* second has none) and a post that classify rejects as noise.
OrderEnvelopes ==
    {WellFormed(TextField(<<"gorgon", "Outage">>), Str("did:plc:blas")),
     WellFormed(TextField(<<"gorgon", "Outage">>), Missing),
     WellFormed(TextField(<<"gorgon", "webinar">>), Str("did:plc:blas"))}

\* The remote call answers.
OrderReplies == {Reply("object", "", Str("BULLISH"), Num(90), Str("tight supply"))}

\* The session goes on until the connection drops; the backoff wait that
\* follows outlasts the run.
NextOrder ==
    \/ ConnectionLost
    \/ \E env \in OrderEnvelopes : ReadEnvelope(env)
    \/ \E w \in Workers : WorkerGet(w)
    \/ \E w \in Workers, reply \in OrderReplies : WorkerAnalyzed(w, reply)
    \/ \E w \in Workers : WorkerPublished(w)
    \/ \E w \in Workers : WorkerFailed(w)

SpecOrder == InitOrder /\ [][NextOrder]_vars

\* ===================================================================== claims

\* The waits of the k-th entry's streak: how many sleeps in a row end at k.
RECURSIVE Streak(_, _)
Streak(log, k) == IF k = 0 \/ log[k] = 0 THEN 0 ELSE 1 + Streak(log, k - 1)

RECURSIVE Pow2(_)
Pow2(n) == IF n = 0 THEN 1 ELSE 2 * Pow2(n - 1)

\* C1: after a successful connection the backoff is 1 again: while connected
\* the backoff is 1, and the wait that follows an established connection is 1
\* second, however many failures came before.
C1_BackoffResetOnConnect ==
    /\ hpc = "connected" => backoff = BackoffStart
    /\ \A i \in 1..(Len(sessionLog) - 1) :
          sessionLog[i] = 0 /\ sessionLog[i + 1] # 0 => sessionLog[i + 1] = BackoffStart

\* C2: the n-th failure in a row, with no connection established in between,
\* waits min(2^(n-1), 60) seconds, and the backoff stays within [1, 60].
C2_BackoffSequence ==
    /\ backoff >= BackoffStart /\ backoff <= BackoffCap
    /\ \A k \in 1..Len(sessionLog) :
          sessionLog[k] # 0 =>
              sessionLog[k] = Min(Pow2(Streak(sessionLog, k) - 1), BackoffCap)

\* The filter lets the envelope's item through, in the current state.
Accepts(env) ==
    LET parsed == ParseJetstreamMsg(env)
    IN  /\ parsed.tag = "ok"
        /\ parsed.did.t = "str"
        /\ ShouldProcess(parsed.text, parsed.did.s, stats).accept

\* C3: an accepted item that meets a full queue is dropped: the queue keeps
\* its contents, the ingestion task does not suspend and stays on the same
\* connection, ready for the next envelope; and a drop happens in no other
\* circumstance.
C3_DropWhenFull ==
    [][/\ (Len(queue) >= MaxSize /\ stats' # stats) =>
             \A env \in Envelopes :
                 (Accepts(env) /\ ReadEnvelope(env)) =>
                     /\ queue' = queue
                     /\ unfinished' = unfinished
                     /\ dropped' = dropped + 1
                     /\ hpc' = "connected"
                     /\ sessionLog' = sessionLog
       /\ dropped' # dropped =>
             /\ Len(queue) >= MaxSize
             /\ queue' = queue
             /\ hpc = "connected" /\ hpc' = "connected"
             /\ \E env \in Envelopes : ReadEnvelope(env) /\ Accepts(env)]_vars

C3_Witness ==
    /\ dropped >= 1
    /\ Len(queue) = MaxSize
    /\ hpc = "connected"

\* C4: some counter of the harvester counts the overflow drops: once an
\* accepted item has been dropped on a full queue, that counter equals the
\* number of items dropped so far.
C4_OverflowCounter ==
    dropped >= 1 => \E k \in DOMAIN stats : stats[k] = dropped

\* C5: the queue never holds more than its capacity.
C5_QueueBounded == Len(queue) <= MaxSize

C5_Witness ==
    /\ Len(queue) = MaxSize
    /\ stats.queued > MaxSize
    /\ \E w \in Workers : wpc[w] # "get"

\* An envelope the claim calls malformed, of the wrong kind or empty.
Malformed(env) ==
    \/ env.json # "object"
    \/ env.kind # "commit"
    \/ env.commit # "object"
    \/ env.operation # "create"
    \/ env.collection # PostCollection
    \/ env.text.t # "str"
    \/ env.text.s = <<>>

\* C6: a malformed, wrong-kind or empty-text envelope is dropped silently:
\* nothing is enqueued, the session goes on (still connected, same backoff, no
\* reconnect logged).
C6_MalformedDroppedSilently ==
    [][\A env \in Envelopes :
          (ReadEnvelope(env) /\ Malformed(env)) =>
              /\ queue' = queue
              /\ hpc' = "connected"
              /\ backoff' = backoff
              /\ sessionLog' = sessionLog]_vars

\* C7: an exception in a worker's funnel stage never ends a worker: that
\* worker is back at queue.get(), and the queue's contents, the ingestion task
\* and the other worker are as they were; every worker is running, always.
C7_WorkerSurvivesException ==
    [][/\ \A w \in Workers : wpc'[w] \in {"get", "analyze", "publish"}
       /\ \A w \in Workers :
             WorkerFailed(w) =>
                 /\ wpc'[w] = "get"
                 /\ werrors' = werrors + 1
                 /\ queue' = queue
                 /\ UNCHANGED harvesterVars
                 /\ \A v \in Workers \ {w} :
                       wpc'[v] = wpc[v] /\ witem'[v] = witem[v] /\ wresult'[v] = wresult[v]]_vars

C7_Witness ==
    /\ werrors >= 1
    /\ queue # <<>>
    /\ \A w \in Workers : wpc[w] = "get"

\* C8: analyze returns a sentiment among BULLISH, BEARISH, NEUTRAL and a
\* confidence within [0, 1], whatever the text and the remote reply.
C8_ResultInRange ==
    an.pc = "done" =>
        /\ an.result.sentiment \in Sentiments
        /\ an.result.confidence >= 0 /\ an.result.confidence <= 100

\* The attempt through the remote client raised inside _analyze_llm: the call
\* failed, or what came back could not be parsed.
RemoteFailed(reply) ==
    \/ reply.kind \in {"raise", "no_choices", "no_json", "bad_json"}
    \/ reply.kind = "object" /\ reply.confidence.t \in {"str", "null"}

\* C9: without a remote client, or when the remote attempt fails, analyze
\* gives the local heuristic's sentiment and confidence; the reason is the
\* local one, prefixed with the failure's cause only when a remote attempt
\* was made.
C9_FallbackIsLocal ==
    an.pc = "done" /\ (~an.llm \/ RemoteFailed(an.reply)) =>
        LET local == AnalyzeLocal(an.text)
            r == an.result.reason
        IN  /\ an.result.sentiment = local.sentiment
            /\ an.result.confidence = local.confidence
            /\ IF an.llm
               THEN /\ Len(r) = Len(local.reason) + 2
                    /\ r[1] = "LLM fallback"
                    /\ r[2] \in {"APITimeoutError", "APIConnectionError", "IndexError",
                                 "ValueError", "JSONDecodeError", "TypeError"}
                    /\ SubSeq(r, 3, Len(r)) = local.reason
               ELSE r = local.reason

C9_Witness ==
    /\ an.pc = "done" /\ an.llm /\ an.reply.kind = "raise"
    /\ an.result.sentiment = "BULLISH" /\ an.result.confidence = 75
    /\ an.result.reason[2] = "APITimeoutError"

\* C10: the local heuristic's (sentiment, confidence) is decided by the two
\* matches alone: disruption only BULLISH 0.75, recovery only BEARISH 0.70,
\* both NEUTRAL 0.40, neither NEUTRAL 0.30.
C10_LocalTable ==
    an.pc = "done" /\ ~an.llm =>
        LET bull == Search(BULLISH_RE, an.text)
            bear == Search(BEARISH_RE, an.text)
            pair == <<an.result.sentiment, an.result.confidence>>
        IN  /\ bull /\ ~bear => pair = <<"BULLISH", 75>>
            /\ bear /\ ~bull => pair = <<"BEARISH", 70>>
            /\ bull /\ bear => pair = <<"NEUTRAL", 40>>
            /\ ~bull /\ ~bear => pair = <<"NEUTRAL", 30>>

C10_Witness ==
    /\ an.pc = "done" /\ ~an.llm
    /\ Search(BULLISH_RE, an.text) /\ Search(BEARISH_RE, an.text)
    /\ an.result.sentiment = "NEUTRAL" /\ an.result.confidence = 40

\* The rules that match the text, as positions in the declared order.
Matching(text) == {i \in 1..Len(RuleOrder) : RuleSearch(RuleOrder[i], text)}

\* The position of a category in the declared order.
RulePos(cat) == CHOOSE i \in 1..Len(RuleOrder) : RuleOrder[i] = cat

\* C11: a text that matches the noise pattern is rejected by classify,
\* whichever category rules it matches as well.
C11_NoiseTakesPrecedence ==
    cl.pc = "done" /\ Search(NOISE_PATTERN, cl.text) => ~cl.signal.ok

C11_Witness ==
    /\ cl.pc = "done"
    /\ Search(NOISE_PATTERN, cl.text)
    /\ Cardinality(Matching(cl.text)) >= 2
    /\ ~cl.signal.ok

\* C12: for a text that is not noise and matches a rule, matched_rules lists
\* exactly the matching rules, each once, in the declared order, and the
\* category is the first of them: of two matching rules the one declared
\* later is never the category.
C12_RulesInDeclaredOrder ==
    cl.pc = "done" /\ ~Search(NOISE_PATTERN, cl.text) /\ Matching(cl.text) # {} =>
        LET m == cl.signal.matched_rules
        IN  /\ cl.signal.ok
            /\ \A k \in 1..Len(m) : \E i \in 1..Len(RuleOrder) : m[k] = RuleOrder[i]
            /\ {RulePos(m[k]) : k \in 1..Len(m)} = Matching(cl.text)
            /\ \A k \in 1..(Len(m) - 1) : RulePos(m[k]) < RulePos(m[k + 1])
            /\ cl.signal.category = m[1]
            /\ \A i \in Matching(cl.text), j \in Matching(cl.text) :
                  i < j => cl.signal.category # RuleOrder[j]

C12_Witness ==
    /\ cl.pc = "done"
    /\ cl.signal.ok
    /\ cl.signal.matched_rules = <<"AUSTRALIA_LNG", "LABOR_STRIKE">>
    /\ cl.signal.category = "AUSTRALIA_LNG"
    /\ ~Search(RULES.LABOR_STRIKE, cl.text)

RECURSIVE Instruments(_)
\* The instrument lists of the given categories, one after the other.
Instruments(cats) ==
    IF cats = <<>> THEN <<>> ELSE ASSET_MAP[Head(cats)] \o Instruments(Tail(cats))

\* The matching rules' categories, in the declared order.
MatchingInOrder(text) ==
    LET M == Matching(text)
    IN  [k \in 1..Cardinality(M) |->
            RuleOrder[CHOOSE i \in M : Cardinality({j \in M : j < i}) = k - 1]]

\* Where x comes first in s.
FirstIndex(s, x) == CHOOSE i \in 1..Len(s) : s[i] = x /\ \A j \in 1..(i - 1) : s[j] # x

\* C13: the tickers of a classified signal hold no duplicate, are exactly the
\* instruments of the matched categories, and stand in the order in which
\* they first occur in the matched categories' lists taken in declared order.
C13_TickersDedupInOrder ==
    cl.pc = "done" /\ cl.signal.ok =>
        LET t == cl.signal.tickers
            all == Instruments(MatchingInOrder(cl.text))
        IN  /\ \A a \in 1..Len(t), b \in 1..Len(t) : t[a] = t[b] => a = b
            /\ {t[a] : a \in 1..Len(t)} = {all[a] : a \in 1..Len(all)}
            /\ \A a \in 1..Len(t), b \in 1..Len(t) :
                  a < b => FirstIndex(all, t[a]) < FirstIndex(all, t[b])

C13_Witness ==
    /\ cl.pc = "done"
    /\ cl.signal.ok
    /\ cl.signal.matched_rules = <<"LNG_SUPPLY", "AUSTRALIA_LNG", "US_EXPORT">>
    /\ cl.signal.tickers = <<"UNG", "TTF=F", "EQT", "AR">>

\* The identities that can match: the exact ones and the resolved aliases.
IdentitySet == wl_dids \cup resolved_dids

\* The text holds a configured keyword.
HasKeyword(text) == \E kw \in CROSS_COMMODITY_KEYWORDS : Occurs(kw, LowerText(text))

\* C14: in whitelist mode with no identity that can match (none configured,
\* no alias resolved, aliases configured or not), the filter is the keyword
\* filter: it accepts exactly the texts that hold a keyword.
C14_EmptyWhitelistDegrades ==
    flt.pc = "done" /\ mode = "whitelist" /\ IdentitySet = {} =>
        flt.accept = HasKeyword(flt.text)

InHand(i) ==
    LET w == pub.log[i].worker
    IN  Cur(pub.log, w) = i /\ wpc[w] # "get"

\* C16: for each dequeued item publish is called at most once: not at all
\* when classify rejected the item or while the item is in hand, exactly once
\* when classify accepted it and analyze returned and the worker has moved
\* on; a failed call is the item's only call and the worker has moved on.
C16_PublishAtMostOnce ==
    \A i \in 1..Len(pub.log) :
        LET e == pub.log[i]
        IN  /\ e.accepted = Classify(e.text).ok
            /\ e.calls <= 1
            /\ ~e.accepted => e.calls = 0 /\ ~InHand(i)
            /\ e.calls = 1 => e.accepted /\ e.analyzed
            /\ InHand(i) => e.calls = 0
            /\ e.accepted /\ ~InHand(i) => e.analyzed /\ e.calls = 1
            /\ e.failed >= 1 => e.failed = 1 /\ e.calls = 1 /\ ~InHand(i)

C16_Witness ==
    /\ pub.on
    /\ queue = <<>>
    /\ \A w \in Workers : wpc[w] = "get"
    /\ \E i \in 1..Len(pub.log) : pub.log[i].failed = 1 /\ pub.log[i].calls = 1
    /\ \E i \in 1..Len(pub.log) : ~pub.log[i].accepted /\ pub.log[i].calls = 0

\* C17: start never returns and never raises, whatever ends a session, and
\* every session end leads to a new connection attempt.
C17_NoTerminalState ==
    /\ [](hpc \in {"warm_up", "connecting", "connected", "sleeping"})
    /\ [][hpc = "connected" /\ hpc' # "connected" => hpc' \in {"sleeping", "connecting"}]_vars
    /\ (hpc = "sleeping") ~> (hpc = "connecting")

C17_Witness ==
    /\ hpc = "connecting"
    /\ stats.received >= 1
    /\ Len(sessionLog) >= 2
    /\ sessionLog[Len(sessionLog) - 1] = 0
    /\ sessionLog[Len(sessionLog)] = backoff \div 2

\* C18: whatever ends a session, start waits for the current backoff, at
\* least one second, before it connects again: a session end is followed by
\* the sleep, and a connection attempt starts only after warm-up or a sleep.
C18_WaitBeforeReconnect ==
    [][/\ hpc = "connected" /\ hpc' # "connected" =>
             /\ hpc' = "sleeping"
             /\ sessionLog' = Append(sessionLog, backoff)
             /\ backoff >= 1
       /\ hpc # "connecting" /\ hpc' = "connecting" =>
             hpc \in {"warm_up", "sleeping"}]_vars

\* The remote reply names a sentiment that is none of the three.
UnknownSentiment(reply) ==
    /\ reply.kind = "object"
    /\ reply.sentiment.t = "str"
    /\ Upper(reply.sentiment.s) \notin Sentiments

\* C19: when the remote call fails, its response cannot be parsed, or the
\* sentiment it names is none of BULLISH, BEARISH, NEUTRAL, analyze gives
\* the local heuristic's sentiment and confidence for the text, and the
\* reason is annotated with the cause.
C19_FallbackOnBadReply ==
    an.pc = "done" /\ an.llm /\ (RemoteFailed(an.reply) \/ UnknownSentiment(an.reply)) =>
        /\ an.result.sentiment = AnalyzeLocal(an.text).sentiment
        /\ an.result.confidence = AnalyzeLocal(an.text).confidence
        /\ Len(an.result.reason) >= 2
        /\ an.result.reason[1] = "LLM fallback"

\* A create of a post with a text that is not empty.
IsPost(env) ==
    /\ env.kind = "commit"
    /\ env.operation = "create"
    /\ env.collection = PostCollection
    /\ env.text.t = "str"
    /\ env.text.s # <<>>

\* C20: the queue grows only when the envelope read is a create of a
\* non-empty post that the filter accepts, and then by that post's (text,
\* sourceId); every item on the queue is such a post's.
C20_OnlyAcceptedPostsEnqueued ==
    [][Len(queue') > Len(queue) =>
          /\ \E env \in Envelopes : ReadEnvelope(env)
          /\ \A env \in Envelopes :
                ReadEnvelope(env) =>
                    /\ IsPost(env)
                    /\ Accepts(env)
                    /\ queue' = Append(queue,
                          [text |-> env.text.s,
                           did |-> IF env.did.t = "missing" THEN "unknown" ELSE env.did.s])]_vars

C20_Witness ==
    /\ Len(queue) = 1
    /\ stats.queued = 1
    /\ stats.received = 3
    /\ hpc = "connected"

\* C21: an envelope without a source identity (no did field) is dropped: the
\* step that reads it puts nothing on the queue, in any mode.
C21_NoIdentityDropped ==
    [][queue' # queue =>
          \A env \in Envelopes :
              (env.did.t = "missing" /\ ReadEnvelope(env)) => queue' = queue]_vars

\* classify rejects the text: it is noise or matches no rule.
Rejected(text) == Search(NOISE_PATTERN, text) \/ Matching(text) = {}

\* C22: for an item that classify rejects, analyze is never started and
\* publish is never called; a worker that is in analyze or about to publish
\* holds an item that classify accepted.
C22_RejectedSkipsLaterStages ==
    /\ \A i \in 1..Len(pub.log) :
          Rejected(pub.log[i].text) =>
              /\ ~pub.log[i].started
              /\ ~pub.log[i].analyzed
              /\ pub.log[i].calls = 0
    /\ \A w \in Workers :
          wpc[w] \in {"analyze", "publish"} => ~Rejected(witem[w].text)

C22_Witness ==
    /\ pub.on
    /\ \A w \in Workers : wpc[w] = "get"
    /\ llm
    /\ Len(pub.log) = 2
    /\ Search(NOISE_PATTERN, pub.log[1].text) /\ ~pub.log[1].started
    /\ pub.log[2].started /\ pub.log[2].calls = 1

\* The (text, sourceId) pairs of a sequence of records.
Pairs(s) == [i \in 1..Len(s) |-> <<s[i].text, s[i].did>>]

WasQueued(r) == r.queued

\* C23: the items the workers have taken, in the order they were taken,
\* followed by the items on the queue, are the items put on the queue in the
\* order the ingestion task read them: what is enqueued first is dequeued
\* first.
C23_FifoOrder ==
    Pairs(pub.log) \o Pairs(queue) = Pairs(SelectSeq(pub.reads, WasQueued))

C23_Witness ==
    /\ Len(pub.log) = 2
    /\ pub.log[1].did = "did:plc:blas" /\ pub.log[2].did = "unknown"
    /\ pub.log[1].worker # pub.log[2].worker
    /\ Len(queue) = 1
    /\ dropped = 0

\* Entry j's event was published before entry i's (which may not be
\* published yet).
PublishedBefore(j, i) ==
    /\ pub.log[j].at # 0
    /\ pub.log[i].at = 0 \/ pub.log[j].at < pub.log[i].at

\* C24: publication order is not bound to enqueue order: the event of an
\* item taken later may be published first, and that happens only between
\* items taken by different workers.
C24_OvertakeAcrossWorkers ==
    \A i \in 1..Len(pub.log), j \in 1..Len(pub.log) :
        i < j /\ PublishedBefore(j, i) /\ pub.log[i].accepted =>
            pub.log[i].worker # pub.log[j].worker

C24_Witness ==
    /\ Len(pub.reads) >= 2
    /\ pub.reads[1].did = "did:plc:blas" /\ pub.reads[1].queued
    /\ pub.reads[2].did = "unknown" /\ pub.reads[2].queued
    /\ Len(pub.log) >= 2
    /\ pub.log[1].did = "did:plc:blas" /\ pub.log[2].did = "unknown"
    /\ pub.log[2].at = 1 /\ pub.log[2].failed = 0
    /\ pub.log[1].at = 2 /\ pub.log[1].failed = 0

\* Worker v can take its next step: take an item when one is queued, get
\* the answer of its remote call, have its publish return or raise.  (What
\* follows the readiness condition in WorkerGet, WorkerAnalyzed,
\* WorkerPublished, WorkerFailed and ReadEnvelope only assigns: the
\* condition is the whole of what enables the step.)
CanProceed(v) ==
    /\ wpc[v] = "get" /\ queue # <<>> => WorkerGetReady(v)
    /\ wpc[v] = "analyze" => WorkerResumes(v, "analyze")
    /\ wpc[v] = "publish" => WorkerResumes(v, "publish")

\* C25: while a worker is inside its sentiment call, the other worker can
\* still take, classify, score and publish, and the ingestion task, when it
\* has a session open, can still read and enqueue.
C25_SlowCallBlocksNobody ==
    \A w \in Workers :
        wpc[w] = "analyze" =>
            /\ \A v \in Workers \ {w} : CanProceed(v)
            /\ hpc = "connected" /\ StepsLeft => ReadReady

\* A worker is still inside the call of the first item taken; the other
\* worker has since taken the second item and published its event, and a
\* third item has been put on the queue, which holds MaxSize items at most:
\* it was enqueued after the first was taken.
C25_Witness ==
    /\ Len(pub.log) = 2
    /\ InHand(1) /\ wpc[pub.log[1].worker] = "analyze" /\ ~pub.log[1].analyzed
    /\ pub.log[2].worker # pub.log[1].worker
    /\ pub.log[2].analyzed /\ pub.log[2].calls = 1 /\ pub.log[2].failed = 0
    /\ Len(queue) = 1 /\ stats.queued = 3 /\ dropped = 0

\* C26: while the ingestion task has no session open (it is in its backoff
\* wait), every worker can still take its next step: what is queued is
\* dequeued, processed and published.
C26_BackoffBlocksNoWorker ==
    hpc # "connected" => \A v \in Workers : CanProceed(v)

\* Both queued items were taken during the backoff wait and their events
\* published, the wait still going on.
C26_Witness ==
    /\ hpc = "sleeping"
    /\ Len(pub.log) = 2
    /\ \A i \in 1..Len(pub.log) :
          /\ pub.log[i].during = "sleeping"
          /\ pub.log[i].calls = 1 /\ pub.log[i].failed = 0
    /\ queue = <<>> /\ unfinished = 0

\* C27: handles are resolved once, in the warm-up, which is over before the
\* first connection attempt and never comes back; from then on no step
\* (reading, filtering, enqueuing, reconnecting, the workers') changes the
\* identity sets.
C27_ResolutionOnlyAtStartup ==
    [][/\ hpc # "warm_up" => UNCHANGED <<wl_dids, wl_handles, resolved_dids>>
       /\ hpc = "warm_up" => sessionLog = <<>> /\ stats.received = 0
       /\ hpc' = "warm_up" => hpc = "warm_up"
       /\ wl_dids' = wl_dids /\ wl_handles' = wl_handles]_vars

\* A handle was resolved at warm-up, and since then a post of a source that
\* is not in the sets was filtered out and a post was put on the queue.
C27_Witness ==
    /\ hpc = "connected"
    /\ resolved_dids # {}
    /\ mode # "keyword"
    /\ stats.received >= 2 /\ stats.passed_whitelist < stats.received
    /\ stats.queued >= 1

\* The workers that hold an item: taken from the queue and not yet
\* acknowledged.
Processing == {w \in Workers : wpc[w] # "get"}

\* C28: the queue's unfinished count is the number of items on the queue
\* plus the number of items the workers hold, whether the items before were
\* published, rejected or raised, and it is never negative: each item taken
\* is acknowledged exactly once.
C28_UnfinishedAccounting ==
    /\ unfinished = Len(queue) + Cardinality(Processing)
    /\ unfinished >= 0

\* An item raised in publish and was acknowledged; one item is on the
\* queue and one in a worker's hands.
C28_Witness ==
    /\ werrors >= 1
    /\ Len(queue) = 1
    /\ Cardinality(Processing) = 1
    /\ unfinished = 2

\* C29: with the workers scheduled fairly and every remote call and publish
\* returning or raising, the n-th item placed on the queue is eventually
\* dequeued and acknowledged, whatever became of the items before it.
C29_EveryItemAcknowledged ==
    \A n \in 1..MaxSize :
        (Len(pub.log) + Len(queue) >= n) ~> (Len(pub.log) >= n /\ ~InHand(n))

\* Every queued item was taken and acknowledged, the first after its
\* publish raised, the last after its publish returned.
C29_Witness ==
    /\ Len(pub.log) = MaxSize
    /\ queue = <<>> /\ unfinished = 0
    /\ \A w \in Workers : wpc[w] = "get"
    /\ pub.log[1].failed = 1
    /\ pub.log[MaxSize].calls = 1 /\ pub.log[MaxSize].failed = 0

=============================================================================
